---- MODULE Spec2Model ----
(***************************************************************************)
(* createNg1Wrapper (src/create_ng1_wrapper.ts): the adapter that wraps an *)
(* Angular custom element as an AngularJS component.  The model covers the *)
(* wrapper factory (metadata resolution, bindings, template, accessors)    *)
(* and the generated controller (constructor, $onInit, $onDestroy, the     *)
(* event listeners and the input setters), together with the part of the   *)
(* DOM the controller touches: the located element's listener list and     *)
(* properties, and the host element's display style.                       *)
(***************************************************************************)
EXTENDS Naturals, Sequences, FiniteSets, TLC

VARIABLES wrappers, inst, elem, hostDisplay, last

vars == <<wrappers, inst, elem, hostDisplay, last>>

(***************************************************************************)
(* Bounds                                                                  *)
(***************************************************************************)

\* How many times $onInit may be called on one controller instance.
MaxInits == 2

\* The same, in the specifications with more than one controller.
MaxManyInits == 1

(***************************************************************************)
(* JavaScript values                                                       *)
(***************************************************************************)

Undefined == [type |-> "undefined", val |-> ""]

Null == [type |-> "null", val |-> ""]

Num(s) == [type |-> "number", val |-> s]

Str(s) == [type |-> "string", val |-> s]

Bool(s) == [type |-> "boolean", val |-> s]

Obj(s) == [type |-> "object", val |-> s]

\* The values the text names as falsy, and NaN.
FalsyValues == {Undefined, Null, Num("0"), Num("NaN"), Str(""), Bool("false")}

TruthyValues == {Num("7"), Str("a")}

\* The values the host assigns to an input binding.
AssignedValues == FalsyValues \cup TruthyValues

\* JavaScript ToBoolean, as `if (newValue)` applies it.
Truthy(v) ==
    CASE v.type = "undefined" -> FALSE
      [] v.type = "null" -> FALSE
      [] v.type = "boolean" -> v.val = "true"
      [] v.type = "number" -> v.val \notin {"0", "NaN"}
      [] v.type = "string" -> v.val # ""
      [] OTHER -> TRUE

(***************************************************************************)
(* Components and their metadata (the dependency resolver)                 *)
(***************************************************************************)

Prop(p, t) == [propName |-> p, templateName |-> t]

\* The component types handed to createNg1Wrapper.  "Ghost" is a type the
\* injector's ComponentFactoryResolver has no factory for.
ComponentTypes == {"Bare", "Field", "Form", "Ghost"}

\* The component factories the resolver of an injector produces.
Factories ==
    [c \in {"Bare", "Field", "Form"} |->
        CASE c = "Bare" -> [inputs |-> << >>, outputs |-> << >>]
          [] c = "Field" -> [inputs |-> <<Prop("value", "val")>>,
                             outputs |-> <<Prop("save", "saved")>>]
          [] c = "Form" -> [inputs |-> <<Prop("value", "val"), Prop("label", "label")>>,
                            outputs |-> <<Prop("save", "saved"), Prop("close", "close")>>]]

\* An injector is the set of component types its resolver knows.
Injector == DOMAIN Factories

InputNames == {"value", "label"}

OutputNames == {"save", "close"}

\* Event types dispatched on the element: the output names and one other.
EventTypes == OutputNames \cup {"hover"}

\* The custom element selectors, as sequences of characters.
Selectors == {<<"x", "-", "a">>, <<"m", "y", "-", "e", "l">>}

Wrappers == {"w1", "w2"}

Instances == {"i1", "i2"}

\* Values thrown by the code and by the runtime.
NoError == "none"

ResolveError == "Error: No component factory found"

NotFoundError == "Error: No custom element found"

TypeError == "TypeError"

ExpressionError == "Error: thrown by the bound expression"

\* array.map(({propName}) => propName)
RECURSIVE PropNames(_)
PropNames(arr) ==
    IF arr = << >> THEN << >> ELSE <<Head(arr).propName>> \o PropNames(Tail(arr))

Range(s) == {s[k] : k \in DOMAIN s}

\* getComponentInputs: the factory's inputs, or the resolver's exception.
getComponentInputs(component, injector) ==
    IF component \in injector
    THEN [thrown |-> NoError, value |-> Factories[component].inputs]
    ELSE [thrown |-> ResolveError, value |-> << >>]

\* getComponentOutputs: the factory's outputs, or the resolver's exception.
getComponentOutputs(component, injector) ==
    IF component \in injector
    THEN [thrown |-> NoError, value |-> Factories[component].outputs]
    ELSE [thrown |-> ResolveError, value |-> << >>]

\* One loop that fills the bindings object: bindings[name] = tag for each name.
RECURSIVE SetAll(_, _, _)
SetAll(obj, names, tag) ==
    IF names = << >> THEN obj
    ELSE SetAll((Head(names) :> tag) @@ obj, Tail(names), tag)

\* Bindings with the outputs tagged as required callbacks.
BindingsRequired(propertyInputs, propertyOutputs) ==
    SetAll(SetAll(<< >>, propertyInputs, "<?"), propertyOutputs, "&")

\* The bindings object: the loop over the inputs, then the one over the outputs.
Bindings(propertyInputs, propertyOutputs) ==
    SetAll(SetAll(<< >>, propertyInputs, "<?"), propertyOutputs, "&?")

\* A template that closes the tag in place.
TemplateSelfClosing(customElementSelector) ==
    <<"<">> \o customElementSelector \o <<"/", ">">>

\* The template literal `<${customElementSelector}></${customElementSelector}>`.
Template(customElementSelector) ==
    <<"<">> \o customElementSelector \o <<">", "<", "/">> \o customElementSelector \o <<">">>

\* Accessors kept on one prototype shared by the classes of all invocations.
AccessorsShared(propertyInputs) == InputNames

\* The accessors Object.defineProperty puts on the controller prototype.
Accessors(propertyInputs) == Range(propertyInputs)

NoWrapper ==
    [status |-> "none", component |-> "", selector |-> << >>, propertyInputs |-> << >>,
     propertyOutputs |-> << >>, accessors |-> {}, bindings |-> << >>,
     template |-> << >>]

\* createNg1Wrapper catching the resolver's exception and wrapping a
\* component without inputs and outputs instead.
createNg1WrapperCatching(customElementSelector, component, injector) ==
    [thrown |-> NoError,
     wrapper |->
         [status |-> "created",
          component |-> component,
          selector |-> customElementSelector,
          propertyInputs |-> PropNames(getComponentInputs(component, injector).value),
          propertyOutputs |-> PropNames(getComponentOutputs(component, injector).value),
          accessors |-> Accessors(PropNames(getComponentInputs(component, injector).value)),
          bindings |-> Bindings(PropNames(getComponentInputs(component, injector).value),
                                PropNames(getComponentOutputs(component, injector).value)),
          template |-> Template(customElementSelector)]]

\* createNg1Wrapper: the descriptor and the closure of the controller class,
\* or the exception that ends the call.
createNg1Wrapper(customElementSelector, component, injector) ==
    LET ins == getComponentInputs(component, injector)
        outs == getComponentOutputs(component, injector)
    IN  IF ins.thrown # NoError
        THEN [thrown |-> ins.thrown, wrapper |-> [NoWrapper EXCEPT !.status = "failed", !.component = component]]
        ELSE IF outs.thrown # NoError
        THEN [thrown |-> outs.thrown, wrapper |-> [NoWrapper EXCEPT !.status = "failed", !.component = component]]
        ELSE LET propertyInputs == PropNames(ins.value)
                 propertyOutputs == PropNames(outs.value)
             IN  [thrown |-> NoError,
                  wrapper |->
                      [status |-> "created",
                       component |-> component,
                       selector |-> customElementSelector,
                       propertyInputs |-> propertyInputs,
                       propertyOutputs |-> propertyOutputs,
                       accessors |-> Accessors(propertyInputs),
                       bindings |-> Bindings(propertyInputs, propertyOutputs),
                       template |-> Template(customElementSelector)]]

(***************************************************************************)
(* The DOM the controller touches                                          *)
(***************************************************************************)

\* Payloads of a CustomEvent: null is the DOM's default for `detail`.
DetailValues == {Null, Num("0"), Obj("{id:7}")}

\* A plain Event has no `detail` property; a CustomEvent has one.
PlainEvent(t) == [type |-> t, fields |-> << >>]

CustomEvent(t, d) == [type |-> t, fields |-> ("detail" :> d)]

Events ==
    {PlainEvent(t) : t \in EventTypes}
        \cup {CustomEvent(t, d) : t \in EventTypes, d \in DetailValues}

NoEvent == [type |-> "", fields |-> << >>]

\* Reading `e.detail`: a property the object lacks reads as undefined.
ReadDetail(e) == IF "detail" \in DOMAIN e.fields THEN e.fields["detail"] ELSE Undefined

\* The element before the host renders it: not in the markup, no listeners,
\* the custom element's default inline display, no property set.
NoElement ==
    [present |-> FALSE, listeners |-> {}, display |-> "inline",
     props |-> [p \in InputNames |-> Undefined]]

\* EventTarget.addEventListener: the (type, callback) pair joins the list
\* unless the same pair is in it.
addEventListener(el, type, listener) ==
    [el EXCEPT !.listeners = @ \cup {[type |-> type, fn |-> listener]}]

\* EventTarget.removeEventListener: drops that (type, callback) pair.
removeEventListener(el, type, listener) ==
    [el EXCEPT !.listeners = @ \ {[type |-> type, fn |-> listener]}]

(***************************************************************************)
(* Ng1WrapperController                                                    *)
(***************************************************************************)

\* A controller before the host constructs it.  `inits` counts the calls of
\* $onInit and tells the closures of one call from those of another;
\* `destroyedAt` is the value of `inits` when $onDestroy last ran.
NoInstance ==
    [status |-> "absent", cls |-> "", customElement |-> "null",
     eventListeners |-> << >>, props |-> << >>, inits |-> 0,
     destroyed |-> FALSE, destroyedAt |-> 0]

\* A constructor with the check of what querySelector found inverted.
ctorInverted(cls, found) ==
    LET self == [NoInstance EXCEPT !.cls = cls, !.customElement = found]
    IN  IF self.customElement # "null"
        THEN [thrown |-> NotFoundError, display |-> "inline-block",
              self |-> [self EXCEPT !.status = "failed"]]
        ELSE [thrown |-> NoError, display |-> "inline-block",
              self |-> [self EXCEPT !.status = "live"]]

\* A constructor without the check of what querySelector found.
ctorUnchecked(cls, found) ==
    [thrown |-> NoError, display |-> "inline-block",
     self |-> [NoInstance EXCEPT !.cls = cls, !.customElement = found,
                                 !.status = "live"]]

\* The constructor: sets the host element's display, looks the custom element
\* up in the host's markup and throws when there is none.  `found` is what
\* querySelector finds: the element's id, or "null".
ctor(cls, found) ==
    LET self == [NoInstance EXCEPT !.cls = cls, !.customElement = found]
    IN  IF self.customElement = "null"
        THEN [thrown |-> NotFoundError, display |-> "inline-block",
              self |-> [self EXCEPT !.status = "failed"]]
        ELSE [thrown |-> NoError, display |-> "inline-block",
              self |-> [self EXCEPT !.status = "live"]]

\* createEventListener closing over one controller shared by all instances.
createEventListenerShared(this, methodName, gen) ==
    [self |-> "i1", methodName |-> methodName, gen |-> gen]

\* createEventListener: a new closure over `this` and the method name.
createEventListener(this, methodName, gen) ==
    [self |-> this, methodName |-> methodName, gen |-> gen]

\* The loop of $onInit over propertyOutputs: the listener is recorded in the
\* map first and attached second, so a null element throws after the set.
RECURSIVE InitLoop(_, _, _, _)
InitLoop(st, this, outputs, gen) ==
    IF outputs = << >> \/ st.thrown # NoError THEN st
    ELSE LET output == Head(outputs)
             eventListener == createEventListener(this, output, gen)
             self == [st.self EXCEPT !.eventListeners = (output :> eventListener) @@ @]
         IN  IF self.customElement = "null"
             THEN [st EXCEPT !.self = self, !.thrown = TypeError]
             ELSE InitLoop([st EXCEPT !.self = self,
                                      !.el = addEventListener(@, output, eventListener)],
                           this, Tail(outputs), gen)

\* $onInit recording the listeners in the map without attaching them.
onInitUnattached(this, self, el, propertyOutputs) ==
    [InitLoop([self |-> [self EXCEPT !.inits = @ + 1], el |-> el, thrown |-> NoError],
              this, propertyOutputs, self.inits + 1) EXCEPT !.el = el]

\* $onInit: one pass of the loop, with closures of this call's own.
onInit(this, self, el, propertyOutputs) ==
    InitLoop([self |-> [self EXCEPT !.inits = @ + 1], el |-> el, thrown |-> NoError],
             this, propertyOutputs, self.inits + 1)

\* $onDestroy removing a newly created closure instead of the recorded one,
\* which removes nothing.
onDestroyFreshClosure(self, el) ==
    [self |-> [self EXCEPT !.destroyed = TRUE, !.destroyedAt = self.inits],
     el |-> el, thrown |-> NoError]

\* $onDestroy: removes every entry of the map from the element; the map
\* itself is left as it is.
onDestroy(self, el) ==
    LET entries == {[type |-> n, fn |-> self.eventListeners[n]] :
                        n \in DOMAIN self.eventListeners}
        done == [self EXCEPT !.destroyed = TRUE, !.destroyedAt = self.inits]
    IN  IF entries # {} /\ self.customElement = "null"
        THEN [self |-> done, el |-> el, thrown |-> TypeError]
        ELSE [self |-> done, el |-> [el EXCEPT !.listeners = @ \ entries],
              thrown |-> NoError]

\* isCustomEvent testing the payload for truthiness.
isCustomEventTruthy(e) == Truthy(ReadDetail(e))

\* isCustomEvent: (e as CustomEvent).detail !== undefined
isCustomEvent(e) == ReadDetail(e) # Undefined

\* The locals object the listener builds.
Locals(e) ==
    IF isCustomEvent(e)
    THEN ("$event" :> e) @@ ("detail" :> ReadDetail(e))
    ELSE ("$event" :> e)

\* What the bound expression does when it is evaluated.
Outcomes == {"returns", "throws"}

\* Reading this[methodName]: a name with a set-only accessor on the prototype
\* reads as undefined, any other name reads the bound property.
Callee(self, accessors, methodName) ==
    IF methodName \in accessors \/ methodName \notin DOMAIN self.props
    THEN "undefined"
    ELSE self.props[methodName]

\* One call of a listener: this[methodName](locals) is evaluated first and
\* its result is then passed to $rootScope.$apply.  An exception of the
\* evaluation leaves the listener before $apply is called.
Listener(fn, e, self, accessors, outcome) ==
    LET locals == Locals(e)
        callee == Callee(self, accessors, fn.methodName)
        evaluation == [binding |-> fn.methodName, locals |-> locals]
    IN  IF callee = "undefined"
        THEN [fn |-> fn, event |-> e, locals |-> locals, evaluated |-> FALSE,
              thrown |-> TypeError, applyArgs |-> {}]
        ELSE IF outcome = "throws"
        THEN [fn |-> fn, event |-> e, locals |-> locals, evaluated |-> TRUE,
              thrown |-> ExpressionError, applyArgs |-> {}]
        ELSE [fn |-> fn, event |-> e, locals |-> locals, evaluated |-> TRUE,
              thrown |-> NoError, applyArgs |-> {evaluation}]

\* A set accessor writing the value to every input property of the element.
setterEveryProperty(el, property, newValue) ==
    IF Truthy(newValue)
    THEN [el EXCEPT !.props = [p \in DOMAIN @ |-> newValue]]
    ELSE el

\* A set accessor without the truthiness check.
setterUnconditional(el, property, newValue) ==
    [el EXCEPT !.props[property] = newValue]

\* The set accessor of an input property.
setter(el, property, newValue) ==
    IF Truthy(newValue)
    THEN [el EXCEPT !.props[property] = newValue]
    ELSE el

(***************************************************************************)
(* The state machine                                                       *)
(***************************************************************************)

\* The last operation and what it was seen to do: the exception it raised,
\* the listener calls of a dispatch, the element property before a set.
NoOp ==
    [op |-> "none", who |-> "", name |-> "", value |-> Undefined,
     event |-> NoEvent, thrown |-> NoError, calls |-> {}, before |-> Undefined]

Init ==
    /\ wrappers = [w \in Wrappers |-> NoWrapper]
    /\ inst = [i \in Instances |-> NoInstance]
    /\ elem = [i \in Instances |-> NoElement]
    /\ hostDisplay = [i \in Instances |-> ""]
    /\ last = NoOp

\* A call of createNg1Wrapper.
Wrap(w, selector, component) ==
    /\ wrappers[w].status = "none"
    /\ LET r == createNg1Wrapper(selector, component, Injector)
       IN  /\ wrappers' = [wrappers EXCEPT ![w] = r.wrapper]
           /\ last' = [NoOp EXCEPT !.op = "createNg1Wrapper", !.who = w,
                                   !.name = component, !.thrown = r.thrown]
    /\ UNCHANGED <<inst, elem, hostDisplay>>

\* The host mounts the component: it renders the template (the markup holds
\* the custom element or not), constructs the controller and, when the
\* constructor returned, assigns the callback bindings the markup supplies.
Mount(i, w, found, bound) ==
    /\ inst[i].status = "absent"
    /\ wrappers[w].status = "created"
    /\ LET r == ctor(w, IF found THEN i ELSE "null")
           outs == Range(wrappers[w].propertyOutputs)
           props == [n \in outs |-> IF n \in bound THEN "function" ELSE "undefined"]
       IN  /\ inst' = [inst EXCEPT ![i] =
                          IF r.thrown = NoError THEN [r.self EXCEPT !.props = props]
                          ELSE r.self]
           /\ hostDisplay' = [hostDisplay EXCEPT ![i] = r.display]
           /\ last' = [NoOp EXCEPT !.op = "constructor", !.who = i, !.thrown = r.thrown]
    /\ elem' = [elem EXCEPT ![i].present = found]
    /\ UNCHANGED wrappers

\* A call of $onInit on a constructed controller.
OnInit(i) ==
    /\ inst[i].status = "live"
    /\ inst[i].inits < MaxInits
    /\ LET r == onInit(i, inst[i], elem[i], wrappers[inst[i].cls].propertyOutputs)
       IN  /\ inst' = [inst EXCEPT ![i] = r.self]
           /\ elem' = [elem EXCEPT ![i] = r.el]
           /\ last' = [NoOp EXCEPT !.op = "$onInit", !.who = i, !.thrown = r.thrown]
    /\ UNCHANGED <<wrappers, hostDisplay>>

\* A call of $onDestroy on a constructed controller.
OnDestroy(i) ==
    /\ inst[i].status = "live"
    /\ LET r == onDestroy(inst[i], elem[i])
       IN  /\ inst' = [inst EXCEPT ![i] = r.self]
           /\ elem' = [elem EXCEPT ![i] = r.el]
           /\ last' = [NoOp EXCEPT !.op = "$onDestroy", !.who = i, !.thrown = r.thrown]
    /\ UNCHANGED <<wrappers, hostDisplay>>

\* The element dispatches an event: every listener of that type in its list
\* is called, and an exception of one does not keep the others from running.
Dispatch(i, e) ==
    /\ elem[i].present
    /\ LET matched == {l \in elem[i].listeners : l.type = e.type}
       IN  \E outcome \in [{l.fn : l \in matched} -> Outcomes] :
               last' = [NoOp EXCEPT
                           !.op = "dispatchEvent", !.who = i, !.event = e,
                           !.calls = {Listener(l.fn, e, inst[l.fn.self],
                                               wrappers[inst[l.fn.self].cls].accessors,
                                               outcome[l.fn]) : l \in matched}]
    /\ UNCHANGED <<wrappers, inst, elem, hostDisplay>>

\* The host assigns a value to an input property of the controller.
SetInput(i, property, newValue) ==
    /\ inst[i].status = "live"
    /\ property \in wrappers[inst[i].cls].accessors
    /\ elem' = [elem EXCEPT ![i] = setter(@, property, newValue)]
    /\ last' = [NoOp EXCEPT !.op = "set", !.who = i, !.name = property,
                            !.value = newValue, !.before = elem[i].props[property]]
    /\ UNCHANGED <<wrappers, inst, hostDisplay>>

\* Any caller, any order: the controller's methods are public.
Next ==
    \/ \E sel \in Selectors, c \in ComponentTypes : Wrap("w1", sel, c)
    \/ \E found \in BOOLEAN, bound \in SUBSET OutputNames :
           Mount("i1", "w1", found, bound)
    \/ OnInit("i1")
    \/ OnDestroy("i1")
    \/ \E e \in Events : Dispatch("i1", e)
    \/ \E p \in InputNames, v \in AssignedValues : SetInput("i1", p, v)

Spec == Init /\ [][Next]_vars

\* The order in which AngularJS drives a controller: $onInit once after the
\* constructor, $onDestroy once after that, no binding update afterwards.
HostOnInit(i) == inst[i].inits = 0 /\ ~inst[i].destroyed /\ OnInit(i)

HostOnDestroy(i) == inst[i].inits = 1 /\ ~inst[i].destroyed /\ OnDestroy(i)

HostSetInput(i, p, v) == ~inst[i].destroyed /\ SetInput(i, p, v)

NextHost ==
    \/ \E sel \in Selectors, c \in ComponentTypes : Wrap("w1", sel, c)
    \/ \E found \in BOOLEAN, bound \in SUBSET OutputNames :
           Mount("i1", "w1", found, bound)
    \/ HostOnInit("i1")
    \/ HostOnDestroy("i1")
    \/ \E e \in Events : Dispatch("i1", e)
    \/ \E p \in InputNames, v \in AssignedValues : HostSetInput("i1", p, v)

SpecHost == Init /\ [][NextHost]_vars

\* A smaller choice of components, events and values for the specifications
\* with more than one controller.
ManyComponents == {"Field", "Form"}

ManySelector == <<"x", "-", "a">>

ManyEvents == {CustomEvent("save", Obj("{id:7}")), PlainEvent("close")}

ManyValues == {Num("0"), Num("7")}

ManyOnInit(i) == inst[i].inits < MaxManyInits /\ OnInit(i)

\* Two mounted controllers of one wrapper, any caller and any order.
NextSiblings ==
    \/ \E c \in ManyComponents : Wrap("w1", ManySelector, c)
    \/ \E i \in Instances, found \in BOOLEAN, bound \in {{}, OutputNames} :
           Mount(i, "w1", found, bound)
    \/ \E i \in Instances : ManyOnInit(i)
    \/ \E i \in Instances : OnDestroy(i)
    \/ \E i \in Instances, e \in ManyEvents : Dispatch(i, e)
    \/ \E i \in Instances, p \in InputNames, v \in ManyValues : SetInput(i, p, v)

SpecSiblings == Init /\ [][NextSiblings]_vars

\* Two wrappers made by two calls of createNg1Wrapper, one mounted controller
\* of each, any caller and any order.
WrapperOf == [i \in Instances |-> IF i = "i1" THEN "w1" ELSE "w2"]

NextWrappers ==
    \/ \E w \in Wrappers, c \in ManyComponents : Wrap(w, ManySelector, c)
    \/ \E i \in Instances, found \in BOOLEAN, bound \in {{}, OutputNames} :
           Mount(i, WrapperOf[i], found, bound)
    \/ \E i \in Instances : ManyOnInit(i)
    \/ \E i \in Instances : OnDestroy(i)
    \/ \E i \in Instances, e \in ManyEvents : Dispatch(i, e)
    \/ \E i \in Instances, p \in InputNames, v \in ManyValues : SetInput(i, p, v)

SpecWrappers == Init /\ [][NextWrappers]_vars

(***************************************************************************)
(* Properties                                                              *)
(***************************************************************************)

\* The listeners an instance has attached to some element.
AttachedBy(i) ==
    UNION {{l \in elem[j].listeners : l.fn.self = i} : j \in Instances}

\* C1: after $onDestroy has run on an instance, no listener the instance
\* attached before it fires again: an event dispatched on the element then
\* causes no evaluation of the output binding and no call of $apply by such
\* a listener, whatever the calls and events were.
C1_NoCallAfterDestroy ==
    \A c \in last.calls :
        (inst[c.fn.self].destroyed /\ c.fn.gen <= inst[c.fn.self].destroyedAt) =>
            ~c.evaluated /\ c.applyArgs = {}

\* C2: a construction whose markup holds no matching node raises the
\* element-not-found error, and that instance has no listener on any
\* element and none in its map, then and afterwards.
C2_NotFoundAttachesNothing ==
    \A i \in Instances :
        (inst[i].status # "absent" /\ ~elem[i].present) =>
            /\ inst[i].status = "failed"
            /\ (last.op = "constructor" /\ last.who = i) => last.thrown = NotFoundError
            /\ AttachedBy(i) = {}
            /\ inst[i].eventListeners = << >>

C2_Witness ==
    /\ last.op = "constructor"
    /\ last.thrown = NotFoundError
    /\ inst[last.who].status = "failed"
    /\ wrappers[inst[last.who].cls].propertyOutputs # << >>

C4_LocalsOfEvent ==
    \A c \in last.calls :
        /\ c.event = last.event
        /\ c.locals["$event"] = c.event
        /\ ("detail" \in DOMAIN c.locals) <=> ("detail" \in DOMAIN c.event.fields)
        /\ "detail" \in DOMAIN c.event.fields =>
               /\ DOMAIN c.locals = {"$event", "detail"}
               /\ c.locals["detail"] = c.event.fields["detail"]
        /\ "detail" \notin DOMAIN c.event.fields => DOMAIN c.locals = {"$event"}
        /\ \A a \in c.applyArgs : a.locals = c.locals

C4_Witness ==
    /\ \E c \in last.calls :
           /\ c.fn.methodName = "save"
           /\ c.event = CustomEvent("save", Obj("{id:7}"))
           /\ c.evaluated
           /\ c.locals["detail"] = Obj("{id:7}")

\* C5: the bindings of a component with N inputs and M outputs have exactly
\* N+M entries, '<?' for every input name and '&?' for every output name,
\* and no required tag.
C5_BindingsOptional ==
    \A w \in Wrappers :
        wrappers[w].status = "created" =>
            LET f == Factories[wrappers[w].component]
                b == wrappers[w].bindings
            IN  /\ Cardinality(DOMAIN b) = Len(f.inputs) + Len(f.outputs)
                /\ \A k \in DOMAIN f.inputs : b[f.inputs[k].propName] = "<?"
                /\ \A k \in DOMAIN f.outputs : b[f.outputs[k].propName] = "&?"
                /\ \A n \in DOMAIN b : b[n] \in {"<?", "&?"}

C5_Witness ==
    /\ wrappers["w1"].status = "created"
    /\ wrappers["w1"].component = "Form"
    /\ Cardinality(DOMAIN wrappers["w1"].bindings) = 4

\* C6: when the resolver has no factory for the component type,
\* createNg1Wrapper raises and produces no descriptor: no bindings, no
\* template, no controller class, no accessor, and so no controller of it.
C6_ResolverFailureAborts ==
    \A w \in Wrappers :
        (wrappers[w].status # "none" /\ wrappers[w].component \notin Injector) =>
            /\ wrappers[w].status = "failed"
            /\ (last.op = "createNg1Wrapper" /\ last.who = w) => last.thrown = ResolveError
            /\ wrappers[w].bindings = << >>
            /\ wrappers[w].template = << >>
            /\ wrappers[w].accessors = {}
            /\ \A i \in Instances : inst[i].cls # w

C6_Witness ==
    /\ last.op = "createNg1Wrapper"
    /\ last.thrown = ResolveError
    /\ wrappers[last.who].component = "Ghost"
    /\ wrappers[last.who].status = "failed"

\* C7: the template of the descriptor is '<' s '></' s '>' for the
\* selector s, whatever inputs and outputs the component declares.
C7_TemplateIsOneTag ==
    \A w \in Wrappers :
        wrappers[w].status = "created" =>
            LET t == wrappers[w].template
                sel == wrappers[w].selector
                n == Len(sel)
            IN  /\ Len(t) = 2 * n + 5
                /\ t[1] = "<"
                /\ SubSeq(t, 2, n + 1) = sel
                /\ SubSeq(t, n + 2, n + 4) = <<">", "<", "/">>
                /\ SubSeq(t, n + 5, 2 * n + 4) = sel
                /\ t[2 * n + 5] = ">"

C7_Witness ==
    /\ wrappers["w1"].status = "created"
    /\ wrappers["w1"].component = "Form"
    /\ wrappers["w1"].selector = <<"m", "y", "-", "e", "l">>
    /\ wrappers["w1"].template =
           <<"<", "m", "y", "-", "e", "l", ">", "<", "/", "m", "y", "-", "e", "l", ">">>

C9_OneApplyPerEvent ==
    \A c \in last.calls :
        c.evaluated =>
            c.applyArgs = {[binding |-> c.fn.methodName, locals |-> c.locals]}

\* C10: between $onInit and $onDestroy every declared output name has
\* exactly one listener on the element, the one the map holds under that
\* name; the map has no other key; nothing is attached before $onInit.
C10_OneListenerPerOutput ==
    \A i \in Instances :
        LET self == inst[i]
            outs == IF self.status = "live"
                    THEN {o.propName :
                            o \in Range(Factories[wrappers[self.cls].component].outputs)}
                    ELSE {}
        IN  /\ self.inits = 0 =>
                   elem[i].listeners = {} /\ self.eventListeners = << >>
            /\ (self.inits > 0 /\ ~self.destroyed) =>
                   /\ DOMAIN self.eventListeners = outs
                   /\ \A l \in elem[i].listeners : l.type \in outs
                   /\ \A n \in outs :
                          {l \in elem[i].listeners : l.type = n} =
                              {[type |-> n, fn |-> self.eventListeners[n]]}

C10_Witness ==
    /\ inst["i1"].inits = 1
    /\ ~inst["i1"].destroyed
    /\ DOMAIN inst["i1"].eventListeners = {"save", "close"}
    /\ Cardinality(elem["i1"].listeners) = 2

\* C11: a successful construction locates the custom element in the host's
\* markup and sets the display style of that located node to inline-block.
C11_LocatedNodeInlineBlock ==
    \A i \in Instances :
        inst[i].status = "live" =>
            /\ inst[i].customElement = i
            /\ elem[i].present
            /\ elem[i].display = "inline-block"

\* C15: an event of a declared output type whose callback binding the host
\* did not supply is handled without an error, and $apply is still called.
C15_UnboundOutputHandled ==
    \A c \in last.calls :
        inst[c.fn.self].props[c.fn.methodName] = "undefined" =>
            /\ c.thrown = NoError
            /\ c.applyArgs # {}

\* C16: under any sequence of $onInit and $onDestroy calls an instance has at
\* most one listener per declared output name on the element, and $onDestroy
\* removes every listener the instance has attached.
C16_AtMostOneListenerPerName ==
    /\ \A i \in Instances : \A n \in OutputNames :
           Cardinality({l \in AttachedBy(i) : l.type = n}) <= 1
    /\ last.op = "$onDestroy" => AttachedBy(last.who) = {}

\* The input property names a component declares.
DeclaredInputs(component) == {p.propName : p \in Range(Factories[component].inputs)}

\* C12: listener state belongs to one controller: a listener on an element
\* and an entry of a map are of that element's own controller, an event on
\* one element evaluates only that controller's binding, and $onInit,
\* $onDestroy and a dispatch on one controller leave every other controller,
\* its map and its element's listeners as they were.
C12_ListenersPerInstance ==
    /\ [](/\ \A j \in Instances : \A l \in elem[j].listeners : l.fn.self = j
          /\ \A j \in Instances : \A n \in DOMAIN inst[j].eventListeners :
                 inst[j].eventListeners[n].self = j
          /\ \A c \in last.calls : c.fn.self = last.who)
    /\ [][last'.op \in {"$onInit", "$onDestroy", "dispatchEvent"} =>
              \A j \in Instances \ {last'.who} :
                  inst'[j] = inst[j] /\ elem'[j] = elem[j]]_vars

C12_Witness ==
    /\ inst["i1"].inits = 1
    /\ inst["i1"].destroyed
    /\ elem["i1"].listeners = {}
    /\ last.op = "dispatchEvent"
    /\ last.who = "i2"
    /\ \E c \in last.calls : c.fn.self = "i2" /\ c.applyArgs # {}

\* C13: a construction succeeds exactly when its own markup holds the
\* element, whatever happened to other constructions, and one that raises
\* the element-not-found error leaves every other controller, its map, its
\* element and its host element as they were.
C13_FailurePerInstance ==
    /\ [](\A i \in Instances :
              inst[i].status # "absent" =>
                  (elem[i].present <=> inst[i].status = "live"))
    /\ [][(last'.op = "constructor" /\ last'.thrown = NotFoundError) =>
              \A j \in Instances \ {last'.who} :
                  /\ inst'[j] = inst[j]
                  /\ elem'[j] = elem[j]
                  /\ hostDisplay'[j] = hostDisplay[j]]_vars

C13_Witness ==
    /\ last.op = "constructor"
    /\ last.who = "i1"
    /\ last.thrown = NotFoundError
    /\ inst["i2"].status = "live"
    /\ inst["i2"].inits = 1
    /\ elem["i2"].listeners # {}

\* C14: the controller class of a wrapper has accessors for the input names
\* of its own component only, an element gets properties only under those
\* names, and assigning an input on a controller changes no element of
\* another controller.
C14_AccessorsPerWrapper ==
    /\ [](/\ \A w \in Wrappers :
                 wrappers[w].status = "created" =>
                     wrappers[w].accessors = DeclaredInputs(wrappers[w].component)
          /\ \A i \in Instances : \A p \in InputNames :
                 elem[i].props[p] # Undefined =>
                     p \in DeclaredInputs(wrappers[inst[i].cls].component))
    /\ [][last'.op = "set" =>
              \A j \in Instances \ {last'.who} : elem'[j] = elem[j]]_vars

C14_Witness ==
    /\ wrappers["w1"].component = "Field"
    /\ wrappers["w2"].component = "Form"
    /\ inst["i1"].status = "live"
    /\ inst["i2"].status = "live"
    /\ last.op = "set"
    /\ last.who = "i2"
    /\ last.name = "label"
    /\ elem["i2"].props["label"] = Num("7")
    /\ elem["i1"].props["label"] = Undefined

\* C17: assigning a value to an input accessor changes at most the property
\* of that name on that controller's element: every other property, every
\* listener list, every map and controller stay as they were, and no
\* listener, binding or $apply is called.
C17_SetInputFrame ==
    [][last'.op = "set" =>
          /\ inst' = inst
          /\ wrappers' = wrappers
          /\ hostDisplay' = hostDisplay
          /\ last'.calls = {}
          /\ \A j \in Instances :
                 /\ elem'[j].listeners = elem[j].listeners
                 /\ elem'[j].present = elem[j].present
                 /\ elem'[j].display = elem[j].display
                 /\ \A p \in InputNames :
                        (j # last'.who \/ p # last'.name) =>
                            elem'[j].props[p] = elem[j].props[p]]_vars

C17_Witness ==
    /\ last.op = "set"
    /\ last.who = "i1"
    /\ last.name = "value"
    /\ last.value = Num("7")
    /\ last.before = Undefined
    /\ elem["i1"].props["value"] = Num("7")
    /\ elem["i1"].props["label"] = Undefined
    /\ elem["i1"].listeners # {}
    /\ wrappers["w1"].component = "Form"
    /\ inst["i2"].status = "live"

====
